---- MODULE Spec2Model ----
(***************************************************************************)
(* geopandas-kml: the colour normalisation layer of _utils/validation.py,   *)
(* the shape helpers and geometry validators of validation.py, and         *)
(* geoseries_to_kml of _utils/geometries.py.                               *)
(*                                                                         *)
(* Every function modelled is pure, so the state machine applies one       *)
(* function per step to arguments drawn from a bounded universe of Python  *)
(* values and records the call and its outcome.  value is the first        *)
(* argument, alpha the alpha of the colour calls, args the further         *)
(* positional arguments of the other calls.                                *)
(***************************************************************************)
EXTENDS Integers, Sequences, FiniteSets, TLC

VARIABLES call, value, alpha, args, result

vars == <<call, value, alpha, args, result>>

(***************************************************************************)
(* Python values.  A value is a record [t, v]: t is the runtime type and v *)
(* the payload.  A str carries the sequence of its characters, a float the *)
(* pair <<n, d>> standing for the double nearest to n/d, a list or tuple   *)
(* the sequence of its items.                                              *)
(***************************************************************************)
PyStr(cs) == [t |-> "str", v |-> cs]

PyInt(n) == [t |-> "int", v |-> n]

PyBool(b) == [t |-> "bool", v |-> IF b THEN 1 ELSE 0]

PyFloat(n, d) == [t |-> "float", v |-> <<n, d>>]

PyList(xs) == [t |-> "list", v |-> xs]

PyTuple(xs) == [t |-> "tuple", v |-> xs]

PyNone == [t |-> "none", v |-> 0]

\* An empty dict: a value that is neither a str nor a list, and is unhashable.
PyDict == [t |-> "dict", v |-> <<>>]

\* A dict with the given <<key, value>> pairs, in insertion order, and a set.
Dict(items) == [t |-> "dict", v |-> items]

PySet(xs) == [t |-> "set", v |-> xs]

\* numpy scalars, as the items of an array are when it is iterated, and the
\* two containers of UniqueIterable that are not built in.  An ndarray
\* carries what iterating it yields: numpy scalars when it has one axis,
\* sub-arrays when it has more.  A Series carries Python objects.
NpInt64(n) == [t |-> "np.int64", v |-> n]

NpFloat64(n, d) == [t |-> "np.float64", v |-> <<n, d>>]

NpStr(cs) == [t |-> "np.str_", v |-> cs]

NdArray(xs) == [t |-> "ndarray", v |-> xs]

Series(xs) == [t |-> "Series", v |-> xs]

\* isinstance(value, UniqueIterable)
UniqueIterable == {"tuple", "list", "ndarray", "Series"}

\* isinstance(value, type_) for the types the files test against; bool is a
\* subclass of int, np.float64 of float, np.str_ of str; Numeric is
\* Union[int, float].
IsInstance(x, type_) ==
    CASE type_ = "int" -> x.t \in {"int", "bool"}
      [] type_ = "float" -> x.t \in {"float", "np.float64"}
      [] type_ = "str" -> x.t \in {"str", "np.str_"}
      [] type_ = "bool" -> x.t = "bool"
      [] type_ = "list" -> x.t = "list"
      [] type_ = "tuple" -> x.t = "tuple"
      [] type_ = "Numeric" -> x.t \in {"int", "bool", "float", "np.float64"}
      [] type_ = "BaseGeometry" -> x.t = "geometry"
      [] type_ = "Iterable" ->
            x.t \in {"str", "np.str_", "list", "tuple", "dict", "set", "ndarray", "Series"}
      [] OTHER -> FALSE

\* hash(x) succeeds: what `x in NAMED_COLORS` needs of x.
Hashable(x) == x.t \notin {"dict", "list", "set"}

Range(f) == {f[i] : i \in DOMAIN f}

Max(S) == CHOOSE m \in S : \A n \in S : n <= m

Min(S) == CHOOSE m \in S : \A n \in S : m <= n

\* HEX_PATTERN = string.hexdigits + "#"
HEX_PATTERN ==
    {"0", "1", "2", "3", "4", "5", "6", "7", "8", "9",
     "a", "b", "c", "d", "e", "f", "A", "B", "C", "D", "E", "F", "#"}

NAMED_COLORS ==
    (<<"t", "o", "m", "a", "t", "o">> :> <<"#", "f", "f", "6", "3", "4", "7">>)
    @@ (<<"t", "e", "a", "l">> :> <<"#", "0", "0", "8", "b", "8", "b">>)
    @@ (<<"r", "o", "y", "a", "l", "b", "l", "u", "e">> :> <<"#", "4", "1", "6", "9", "e", "1">>)
    @@ (<<"f", "i", "r", "e", "b", "r", "i", "c", "k">> :> <<"#", "b", "2", "2", "2", "2", "2">>)
    @@ (<<"s", "e", "a", "g", "r", "e", "e", "n">> :> <<"#", "2", "e", "8", "b", "5", "7">>)
    @@ (<<"d", "o", "d", "g", "e", "r", "b", "l", "u", "e">> :> <<"#", "1", "e", "9", "0", "f", "f">>)
    @@ (<<"r", "e", "d">> :> <<"#", "f", "f", "0", "0", "0", "0">>)
    @@ (<<"g", "r", "e", "e", "n">> :> <<"#", "0", "0", "f", "f", "0", "0">>)
    @@ (<<"b", "l", "u", "e">> :> <<"#", "0", "0", "0", "0", "f", "f">>)
    @@ (<<"g", "o", "l", "d">> :> <<"#", "f", "f", "a", "5", "0", "0">>)
    @@ (<<"l", "i", "m", "e">> :> <<"#", "0", "0", "f", "f", "0", "0">>)
    @@ (<<"c", "y", "a", "n">> :> <<"#", "0", "0", "f", "f", "f", "f">>)
    @@ (<<"m", "a", "r", "o", "o", "n">> :> <<"#", "8", "0", "0", "0", "0", "0">>)
    @@ (<<"o", "l", "i", "v", "e">> :> <<"#", "8", "0", "8", "0", "0", "0">>)
    @@ (<<"i", "n", "d", "i", "g", "o">> :> <<"#", "4", "b", "0", "0", "8", "2">>)
    @@ (<<"c", "r", "i", "m", "s", "o", "n">> :> <<"#", "d", "c", "1", "4", "3", "c">>)
    @@ (<<"y", "e", "l", "l", "o", "w", "g", "r", "e", "e", "n">> :> <<"#", "9", "a", "c", "d", "3", "2">>)
    @@ (<<"n", "a", "v", "y">> :> <<"#", "0", "0", "0", "0", "8", "0">>)
    @@ (<<"p", "i", "n", "k">> :> <<"#", "f", "f", "c", "0", "c", "b">>)
    @@ (<<"s", "k", "y", "b", "l", "u", "e">> :> <<"#", "8", "7", "c", "e", "e", "b">>)
    @@ (<<"s", "p", "r", "i", "n", "g", "g", "r", "e", "e", "n">> :> <<"#", "0", "0", "f", "f", "7", "f">>)
    @@ (<<"m", "a", "g", "e", "n", "t", "a">> :> <<"#", "f", "f", "0", "0", "f", "f">>)
    @@ (<<"y", "e", "l", "l", "o", "w">> :> <<"#", "f", "f", "f", "f", "0", "0">>)
    @@ (<<"b", "r", "o", "w", "n">> :> <<"#", "a", "5", "2", "a", "2", "a">>)
    @@ (<<"s", "t", "e", "e", "l", "b", "l", "u", "e">> :> <<"#", "4", "6", "8", "2", "b", "4">>)
    @@ (<<"v", "i", "o", "l", "e", "t">> :> <<"#", "e", "e", "8", "2", "e", "e">>)
    @@ (<<"w", "h", "i", "t", "e">> :> <<"#", "f", "f", "f", "f", "f", "f">>)
    @@ (<<"g", "r", "a", "y">> :> <<"#", "8", "0", "8", "0", "8", "0">>)
    @@ (<<"b", "l", "a", "c", "k">> :> <<"#", "0", "0", "0", "0", "0", "0">>)

(***************************************************************************)
(* The outcome of a call: raised is "none" when the call returned, and     *)
(* the exception's type when it raised.                                    *)
(***************************************************************************)
Returned(r) == r.raised = "none"

\* np_types, by the exact type of an item: the numpy scalars of the universe.
np_types_int_as_float ==
    ("np.int64" :> "float") @@ ("np.float64" :> "float") @@ ("np.str_" :> "str")

np_types ==
    ("np.int64" :> "int") @@ ("np.float64" :> "float") @@ ("np.str_" :> "str")

\* np_types.get(type(item))(item) when type(item) is a key, else item.
NpConvert(item) ==
    IF item.t \in DOMAIN np_types
    THEN [t |-> np_types[item.t], v |-> item.v]
    ELSE item

\* value.tolist(): an array becomes nested lists of Python scalars, a Series
\* the list of its objects; a tuple or list has no tolist and stays as it is.
RECURSIVE tolist(_)
tolist(x) ==
    CASE x.t = "ndarray" -> PyList([i \in DOMAIN x.v |-> tolist(x.v[i])])
      [] x.t = "Series" -> PyList(x.v)
      [] x.t = "np.int64" -> PyInt(x.v)
      [] x.t = "np.float64" -> PyFloat(x.v[1], x.v[2])
      [] x.t = "np.str_" -> PyStr(x.v)
      [] OTHER -> x

RECURSIVE dimensional_count_empty_is_zero(_)
dimensional_count_empty_is_zero(x) ==
    IF x.t \in UniqueIterable
    THEN LET l == tolist(x) IN
         IF Len(l.v) = 0
         THEN 0
         ELSE 1 + Max({dimensional_count_empty_is_zero(l.v[i]) : i \in DOMAIN l.v})
    ELSE 0

RECURSIVE dimensional_count(_)
dimensional_count(x) ==
    IF x.t \in UniqueIterable
    THEN LET l == tolist(x) IN
         IF Len(l.v) = 0
         THEN 1
         ELSE 1 + Max({dimensional_count(l.v[i]) : i \in DOMAIN l.v})
    ELSE 0

ByteMax == 255

value_range_8bit_exclusive(x) == 0 < x.v /\ x.v < ByteMax

value_range_8bit(x) == 0 <= x.v /\ x.v <= ByteMax

\* A float <<n, d>> has d > 0, so 0 <= n/d <= 1 is 0 <= n <= d.
value_range_1(x) ==
    IF x.t = "float" THEN 0 <= x.v[1] /\ x.v[1] <= x.v[2]
    ELSE 0 <= x.v /\ x.v <= 1

\* The items a Python iteration over x yields (the characters of a str are
\* one-character strs, an empty dict yields nothing), and len(x).
PyItems(x) ==
    CASE x.t \in UniqueIterable -> x.v
      [] x.t = "set" -> x.v
      [] x.t = "str" -> [i \in DOMAIN x.v |-> PyStr(<<x.v[i]>>)]
      [] OTHER -> <<>>

iterable_specific_type_no_lower_bound(x, type_) ==
    LET dimensional == dimensional_count(x)
        new_value == [i \in DOMAIN PyItems(x) |-> NpConvert(PyItems(x)[i])]
    IN  IF dimensional < 3
        THEN \A i \in DOMAIN new_value : IsInstance(new_value[i], type_)
        ELSE FALSE

\* The items of value itself are tested, each after its np_types conversion:
\* the items of a depth-2 value are its sub-sequences.
iterable_specific_type(x, type_) ==
    LET dimensional == dimensional_count(x) IN
    IF 0 < dimensional /\ dimensional < 3
    THEN LET new_value == [i \in DOMAIN x.v |-> NpConvert(x.v[i])] IN
         \A i \in DOMAIN new_value : IsInstance(new_value[i], type_)
    ELSE FALSE

PyLen(x) == Len(PyItems(x))

HexDigits ==
    <<"0", "1", "2", "3", "4", "5", "6", "7", "8", "9", "a", "b", "c", "d", "e", "f">>

\* f"{n:02x}" for 0 <= n <= 255: two lowercase digits, zero-padded.
Format02x(n) == <<HexDigits[(n \div 16) + 1], HexDigits[(n % 16) + 1]>>

\* What a constructor leaves behind when it raises: no object.
Raise(e) == [raised |-> e]

(***************************************************************************)
(* hex_alpha_to_hex_abgr                                                   *)
(***************************************************************************)
\* value.replace("#", "")
StripMarker(cs) == SelectSeq(cs, LAMBDA c : c # "#")

\* round(alpha * 255), ties to the even integer, as Python's round does.
AlphaChannelRounded(a) ==
    LET n == a.v[1] * ByteMax
        d == a.v[2]
        q == n \div d
        r == n % d
    IN  IF 2 * r > d \/ (2 * r = d /\ q % 2 = 1) THEN q + 1 ELSE q

\* int(alpha * 255) of a float n/d in the unit interval: the product is not
\* negative, so truncation is the floor.  (On the doubles nearest to n/d,
\* d <= 7 or d = 1000, the floating-point product truncates to this value.)
AlphaChannel(a) == (a.v[1] * ByteMax) \div a.v[2]

\* The channels in red-green-blue order after the alpha.
AbgrAsArgb(aa, r, g, b) == <<"#">> \o aa \o r \o g \o b

\* f"#{alpha:02x}{b}{g}{r}"
Abgr(aa, r, g, b) == <<"#">> \o aa \o b \o g \o r

hex_alpha_to_hex_abgr_no_digit_check(x, a) ==
    IF ~IsInstance(x, "str") THEN Raise("TypeError")
    ELSE LET s == StripMarker(x.v)
             is_hex == Len(s) = 6
         IN  IF ~is_hex THEN Raise("ValueError")
             ELSE IF ~IsInstance(a, "float") THEN Raise("TypeError")
             ELSE IF ~value_range_1(a) THEN Raise("ValueError")
             ELSE [raised |-> "none",
                   ret |-> PyStr(Abgr(Format02x(AlphaChannel(a)),
                                      SubSeq(s, 1, 2), SubSeq(s, 3, 4), SubSeq(s, 5, 6)))]

hex_alpha_to_hex_abgr(x, a) ==
    IF ~IsInstance(x, "str") THEN Raise("TypeError")
    ELSE LET s == StripMarker(x.v)
             is_hex == Len(s) = 6 /\ \A i \in DOMAIN s : s[i] \in HEX_PATTERN
         IN  IF ~is_hex THEN Raise("ValueError")
             ELSE IF ~IsInstance(a, "float") THEN Raise("TypeError")
             ELSE IF ~value_range_1(a) THEN Raise("ValueError")
             ELSE [raised |-> "none",
                   ret |-> PyStr(Abgr(Format02x(AlphaChannel(a)),
                                    SubSeq(s, 1, 2), SubSeq(s, 3, 4), SubSeq(s, 5, 6)))]

(***************************************************************************)
(* IsRgb                                                                   *)
(***************************************************************************)
TripleLen == 3

IsRgb_to_hex_code(x) ==
    PyStr(<<"#">> \o Format02x(x.v[1].v) \o Format02x(x.v[2].v) \o Format02x(x.v[3].v))

\* One (r, g, b): the conjunction both branches of _validation test.
IsRgb_triple(x) ==
    /\ iterable_specific_type(x, "int")
    /\ PyLen(x) = TripleLen
    /\ \A i \in DOMAIN x.v : value_range_8bit(x.v[i])

IsRgb_validation(x) ==
    LET dimension == dimensional_count(x) IN
    CASE dimension = 1 -> [is_valid |-> IsRgb_triple(x), is_iterable |-> FALSE]
      [] dimension = 2 ->
            [is_valid |-> \A i \in DOMAIN x.v : IsRgb_triple(x.v[i]), is_iterable |-> TRUE]
      [] OTHER -> [is_valid |-> FALSE, is_iterable |-> FALSE]

IsRgb(x) ==
    LET r == IsRgb_validation(x) IN
    [raised |-> "none", is_valid |-> r.is_valid, is_iterable |-> r.is_iterable,
     hex |-> IF ~r.is_valid THEN PyNone
             ELSE IF r.is_iterable
                  THEN PyList([i \in DOMAIN x.v |-> IsRgb_to_hex_code(x.v[i])])
                  ELSE IsRgb_to_hex_code(x)]

(***************************************************************************)
(* IsHexCode                                                               *)
(***************************************************************************)
IsHexCode_validation_any_length(x) ==
    LET dimension == dimensional_count(x) IN
    IF dimension = 0 /\ IsInstance(x, "str")
    THEN [is_valid |-> \A i \in DOMAIN x.v : x.v[i] \in HEX_PATTERN,
          is_iterable |-> FALSE]
    ELSE IF dimension = 1
    THEN [is_valid |-> \A i \in DOMAIN x.v :
                          IsInstance(x.v[i], "str") /\ PyLen(x.v[i]) \in {6, 7},
          is_iterable |-> TRUE]
    ELSE [is_valid |-> FALSE, is_iterable |-> FALSE]

IsHexCode_validation(x) ==
    LET dimension == dimensional_count(x) IN
    IF dimension = 0 /\ IsInstance(x, "str")
    THEN [is_valid |-> IF PyLen(x) = 7 \/ PyLen(x) = 6
                       THEN \A i \in DOMAIN x.v : x.v[i] \in HEX_PATTERN
                       ELSE FALSE,
          is_iterable |-> FALSE]
    ELSE IF dimension = 1
    THEN [is_valid |-> \A i \in DOMAIN x.v :
                          IsInstance(x.v[i], "str") /\ (PyLen(x.v[i]) = 7 \/ PyLen(x.v[i]) = 6),
          is_iterable |-> TRUE]
    ELSE [is_valid |-> FALSE, is_iterable |-> FALSE]

IsHexCode(x) ==
    LET r == IsHexCode_validation(x) IN
    [raised |-> "none", is_valid |-> r.is_valid, is_iterable |-> r.is_iterable,
     hex |-> IF r.is_valid THEN x ELSE PyNone]

(***************************************************************************)
(* IsColorName                                                             *)
(***************************************************************************)
\* item in NAMED_COLORS, for a hashable item: only a str can equal a key.
InNamedColors(x) == x.t = "str" /\ x.v \in DOMAIN NAMED_COLORS

\* all(item in NAMED_COLORS for item in value) stops at the first item that is
\* not a key; hashing an unhashable item raises TypeError.
IsColorName_validation_first_only(x) ==
    LET dimension == dimensional_count(x) IN
    IF dimension = 0 /\ IsInstance(x, "str")
    THEN [raised |-> "none", is_valid |-> InNamedColors(x), is_iterable |-> FALSE]
    ELSE IF dimension = 1
    THEN [raised |-> "none",
          is_valid |-> Len(x.v) = 0 \/ (Hashable(x.v[1]) /\ InNamedColors(x.v[1])),
          is_iterable |-> TRUE]
    ELSE [raised |-> "none", is_valid |-> FALSE, is_iterable |-> FALSE]

IsColorName_validation(x) ==
    LET dimension == dimensional_count(x) IN
    IF dimension = 0 /\ IsInstance(x, "str")
    THEN [raised |-> "none", is_valid |-> InNamedColors(x), is_iterable |-> FALSE]
    ELSE IF dimension = 1
    THEN LET stop == {i \in DOMAIN x.v : ~Hashable(x.v[i]) \/ ~InNamedColors(x.v[i])}
         IN  IF stop = {}
             THEN [raised |-> "none", is_valid |-> TRUE, is_iterable |-> TRUE]
             ELSE IF ~Hashable(x.v[Min(stop)])
             THEN Raise("TypeError")
             ELSE [raised |-> "none", is_valid |-> FALSE, is_iterable |-> TRUE]
    ELSE [raised |-> "none", is_valid |-> FALSE, is_iterable |-> FALSE]

\* NAMED_COLORS.get(item): None when item is no key.
NamedColorsGet(x) == IF InNamedColors(x) THEN PyStr(NAMED_COLORS[x.v]) ELSE PyNone

IsColorName(x) ==
    LET r == IsColorName_validation(x) IN
    IF ~Returned(r) THEN r
    ELSE [raised |-> "none", is_valid |-> r.is_valid, is_iterable |-> r.is_iterable,
          hex |-> IF ~r.is_valid THEN PyNone
                  ELSE IF r.is_iterable
                       THEN PyList([i \in DOMAIN x.v |-> NamedColorsGet(x.v[i])])
                       ELSE NamedColorsGet(x)]

(***************************************************************************)
(* NormalizeColor                                                          *)
(***************************************************************************)
Construct(cls, x) ==
    CASE cls = "IsColorName" -> IsColorName(x)
      [] cls = "IsRgb" -> IsRgb(x)
      [] cls = "IsHexCode" -> IsHexCode(x)

valid_cls_hex_first == <<"IsHexCode", "IsColorName", "IsRgb">>

valid_cls == <<"IsColorName", "IsRgb", "IsHexCode">>

\* The loop leaves at the first class whose constructor raises or whose
\* instance is valid.
NormalizeColor_validation_loop(instance) ==
    LET stop == {i \in DOMAIN valid_cls : ~Returned(instance[i]) \/ instance[i].is_valid}
    IN  IF stop = {}
        THEN [raised |-> "none", is_valid |-> FALSE, is_iterable |-> FALSE, hex |-> PyNone]
        ELSE IF ~Returned(instance[Min(stop)])
        THEN Raise(instance[Min(stop)].raised)
        ELSE [raised |-> "none", is_valid |-> TRUE,
              is_iterable |-> instance[Min(stop)].is_iterable,
              hex |-> instance[Min(stop)].hex]

NormalizeColor_validation(x) ==
    NormalizeColor_validation_loop([i \in DOMAIN valid_cls |-> Construct(valid_cls[i], x)])

\* [hex_alpha_to_hex_abgr(h, a) for h, a in zip(hex_code, alpha)]: zip stops at
\* the shorter sequence, and the first pair that raises ends the comprehension.
ZipConvertFirstAlpha(hs, as) ==
    LET n == IF Len(hs) <= Len(as) THEN Len(hs) ELSE Len(as)
        each == [i \in 1..n |-> hex_alpha_to_hex_abgr(hs[i], as[1])]
        bad == {i \in 1..n : ~Returned(each[i])}
    IN  IF bad # {} THEN Raise(each[Min(bad)].raised)
        ELSE [raised |-> "none", ret |-> PyList([i \in 1..n |-> each[i].ret])]

ZipConvert(hs, as) ==
    LET n == IF Len(hs) <= Len(as) THEN Len(hs) ELSE Len(as)
        each == [i \in 1..n |-> hex_alpha_to_hex_abgr(hs[i], as[i])]
        bad == {i \in 1..n : ~Returned(each[i])}
    IN  IF bad # {} THEN Raise(each[Min(bad)].raised)
        ELSE [raised |-> "none", ret |-> PyList([i \in 1..n |-> each[i].ret])]

\* alpha = [alpha] * len(hex_code)
BroadcastOnce(a, hex_code) == <<a>>

Broadcast(a, hex_code) == [i \in 1..PyLen(hex_code) |-> a]

NormalizeColor_hex_to_kml_color_unwrap(is_iterable, hex_code, a) ==
    LET is_iterable_alpha == IsInstance(a, "Iterable") IN
    IF is_iterable
    THEN IF is_iterable_alpha /\ PyLen(hex_code) # PyLen(a)
         THEN Raise("ValueError")
         ELSE IF IsInstance(a, "float")
         THEN ZipConvert(PyItems(hex_code), Broadcast(a, hex_code))
         ELSE IF ~is_iterable_alpha
         THEN Raise("TypeError")
         ELSE ZipConvert(PyItems(hex_code), PyItems(a))
    ELSE IF IsInstance(a, "float")
         THEN hex_alpha_to_hex_abgr(hex_code, a)
         ELSE IF is_iterable_alpha /\ PyLen(a) = 1
         THEN hex_alpha_to_hex_abgr(hex_code, PyItems(a)[1])
         ELSE Raise("ValueError")

NormalizeColor_hex_to_kml_color(is_iterable, hex_code, a) ==
    LET is_iterable_alpha == IsInstance(a, "Iterable") IN
    IF is_iterable
    THEN IF is_iterable_alpha /\ PyLen(hex_code) # PyLen(a)
         THEN Raise("ValueError")
         ELSE IF IsInstance(a, "float")
         THEN ZipConvert(PyItems(hex_code), Broadcast(a, hex_code))
         ELSE IF ~is_iterable_alpha
         THEN Raise("TypeError")       \* zip() of a value that cannot be iterated
         ELSE ZipConvert(PyItems(hex_code), PyItems(a))
    ELSE IF IsInstance(a, "float")
         THEN hex_alpha_to_hex_abgr(hex_code, a)
         ELSE Raise("ValueError")      \* both remaining branches raise ValueError

\* The object __init__ builds from what _validation returned.  When
\* _hex_to_kml_color raises, no object is returned; the record then keeps the
\* fields as they stood at the raise.
NormalizeColor_kml_hex(v, k) ==
    [raised |-> k.raised, is_valid |-> TRUE, is_iterable |-> v.is_iterable,
     hex |-> v.hex, kml_hex |-> IF Returned(k) THEN k.ret ELSE PyNone]

NormalizeColor_init(v, a) ==
    IF ~Returned(v)
    THEN [raised |-> v.raised, is_valid |-> FALSE, is_iterable |-> FALSE,
          hex |-> PyNone, kml_hex |-> PyNone]
    ELSE IF ~v.is_valid
    THEN [raised |-> "none", is_valid |-> FALSE, is_iterable |-> FALSE,
          hex |-> PyNone, kml_hex |-> PyNone]
    ELSE NormalizeColor_kml_hex(v, NormalizeColor_hex_to_kml_color(v.is_iterable, v.hex, a))

NormalizeColor(x, a) == NormalizeColor_init(NormalizeColor_validation(x), a)

(***************************************************************************)
(* The arguments the calls are made with.                                  *)
(***************************************************************************)
MaxLen == 2

MaxNest == 2

SeqsUpTo(S, n) == UNION {[1..k -> S] : k \in 0..n}

RedStr == PyStr(<<"r", "e", "d">>)

BlueStr == PyStr(<<"b", "l", "u", "e">>)

TomatoStr == PyStr(<<"t", "o", "m", "a", "t", "o">>)

Strings ==
    { RedStr, BlueStr, TomatoStr,
      PyStr(<<"#", "f", "f", "0", "0", "0", "0">>),            \* "#ff0000"
      PyStr(<<"f", "f", "f", "f", "f", "f">>),                 \* "ffffff"
      PyStr(<<"#", "f", "f", "f", "f", "f", "f">>),            \* "#ffffff"
      PyStr(<<"0", "A", "6", "3", "f", "f">>),                 \* "0A63ff"
      PyStr(<<"f", "f", "0", "0", "0", "0", "0">>),            \* "ff00000"
      PyStr(<<"#", "f", "f", "0", "0", "0">>),                 \* "#ff000"
      PyStr(<<"g", "g", "g", "g", "g", "g">>),                 \* "gggggg"
      PyStr(<<"#", "7", "f", "0", "0", "0", "0", "f", "f">>),  \* "#7f0000ff"
      PyStr(<<>>) }

Channels == {PyInt(0), PyInt(10), PyInt(255), PyInt(256), PyInt(-1), PyBool(TRUE)}

Scalars == Strings \cup Channels \cup {PyFloat(1, 2), PyNone, PyDict}

\* Flat lists: names, hex strings and values of no colour form, mixed freely.
ListItems ==
    { RedStr, BlueStr, TomatoStr,
      PyStr(<<"#", "f", "f", "0", "0", "0", "0">>),
      PyStr(<<"0", "A", "6", "3", "f", "f">>),
      PyStr(<<"f", "f", "0", "0", "0", "0", "0">>),
      PyStr(<<"g", "g", "g", "g", "g", "g">>),
      PyInt(255), PyNone, PyDict }

Lists == {PyList(xs) : xs \in SeqsUpTo(ListItems, MaxLen)}

\* (r, g, b) and its near misses: a wrong length, a wrong item.
Triples ==
    {PyTuple(xs) : xs \in [1..TripleLen -> Channels \cup {PyFloat(1, 2)}]}
    \cup {PyTuple(xs) : xs \in [1..TripleLen - 1 -> {PyInt(0), PyInt(255)}]}
    \cup {PyTuple(xs) : xs \in [1..TripleLen + 1 -> {PyInt(0), PyInt(255)}]}

NestItems ==
    { PyTuple(<<PyInt(255), PyInt(0), PyInt(0)>>), PyTuple(<<PyInt(0), PyInt(10), PyInt(255)>>),
      PyTuple(<<PyInt(256), PyInt(0), PyInt(0)>>), PyTuple(<<PyInt(0), PyInt(0)>>),
      PyTuple(<<>>), RedStr, PyInt(0) }

Nested ==
    {PyList(xs) : xs \in SeqsUpTo(NestItems, MaxNest)} \ {PyList(xs) : xs \in SeqsUpTo({RedStr, PyInt(0)}, MaxNest)}

Deep == {PyList(<<PyList(<<PyTuple(<<PyInt(255), PyInt(0), PyInt(0)>>)>>)>>), PyList(<<PyList(<<PyList(<<>>)>>)>>)}

Values == Scalars \cup Lists \cup Triples \cup Nested \cup Deep

AlphaItems == {PyFloat(1, 1), PyFloat(1, 2), PyFloat(2, 1)}

Alphas ==
    { PyFloat(0, 1), PyFloat(1, 2), PyFloat(1, 1), PyFloat(999, 1000), PyFloat(1, 3),
      PyFloat(3, 2), PyFloat(-1, 2), PyInt(1), PyNone }
    \cup {PyList(xs) : xs \in SeqsUpTo(AlphaItems, MaxLen)}

(***************************************************************************)
(* The state machine.  The functions are pure and share no state, so a     *)
(* behaviour is one call: the initial state holds the arguments, the step  *)
(* applies one function to them and records its outcome.  The detectors    *)
(* take no alpha (alpha is None); hex_alpha_to_hex_abgr takes one value.   *)
(***************************************************************************)
Init ==
    /\ call = "none"
    /\ value \in Values
    /\ alpha \in Alphas
    /\ args = <<>>
    /\ result = [raised |-> "none"]

CallIsColorName ==
    /\ call = "none" /\ alpha = PyNone
    /\ call' = "IsColorName"
    /\ result' = IsColorName(value)
    /\ UNCHANGED <<value, alpha, args>>

CallIsRgb ==
    /\ call = "none" /\ alpha = PyNone
    /\ call' = "IsRgb"
    /\ result' = IsRgb(value)
    /\ UNCHANGED <<value, alpha, args>>

CallIsHexCode ==
    /\ call = "none" /\ alpha = PyNone
    /\ call' = "IsHexCode"
    /\ result' = IsHexCode(value)
    /\ UNCHANGED <<value, alpha, args>>

CallHexAlphaToHexAbgr ==
    /\ call = "none" /\ value \in Scalars
    /\ call' = "hex_alpha_to_hex_abgr"
    /\ result' = hex_alpha_to_hex_abgr(value, alpha)
    /\ UNCHANGED <<value, alpha, args>>

CallNormalizeColor ==
    /\ call = "none"
    /\ call' = "NormalizeColor"
    /\ result' = NormalizeColor(value, alpha)
    /\ UNCHANGED <<value, alpha, args>>

\* A second construction, on the code a first one produced, with the same
\* alpha: NormalizeColor(NormalizeColor(value, alpha).kml_hex, alpha).
CallNormalizeColorAgain ==
    /\ call = "NormalizeColor" /\ Returned(result) /\ result.is_valid
    /\ call' = "NormalizeColor(kml_hex)"
    /\ value' = result.kml_hex
    /\ result' = NormalizeColor(result.kml_hex, alpha)
    /\ UNCHANGED <<alpha, args>>

Next ==
    \/ CallIsColorName
    \/ CallIsRgb
    \/ CallIsHexCode
    \/ CallHexAlphaToHexAbgr
    \/ CallNormalizeColor
    \/ CallNormalizeColorAgain

Spec == Init /\ [][Next]_vars

TypeOK ==
    call \in {"none", "IsColorName", "IsRgb", "IsHexCode", "hex_alpha_to_hex_abgr",
              "NormalizeColor", "NormalizeColor(kml_hex)"}

(***************************************************************************)
(* Vocabulary of the properties.                                           *)
(***************************************************************************)
IsSequence(x) == x.t \in UniqueIterable

Depth(x) == dimensional_count(x)

\* The value of a lowercase hex digit, and of a pair of them.
LowerHexValue(c) == CHOOSE k \in 0..15 : HexDigits[k + 1] = c

IsLowerHexPair(p) == Len(p) = 2 /\ \A i \in 1..2 : p[i] \in Range(HexDigits)

LowerHexPairValue(p) == 16 * LowerHexValue(p[1]) + LowerHexValue(p[2])

\* The six digits of a hex colour, its marker dropped.
SixDigits(h) == SelectSeq(h.v, LAMBDA c : c # "#")

\* code is "#", two alpha digits, then the blue, green and red pairs of h.
IsAbgrOf(code, h) ==
    /\ code.t = "str"
    /\ Len(code.v) = 9
    /\ code.v[1] = "#"
    /\ IsLowerHexPair(SubSeq(code.v, 2, 3))
    /\ SubSeq(code.v, 4, 5) = SubSeq(SixDigits(h), 5, 6)
    /\ SubSeq(code.v, 6, 7) = SubSeq(SixDigits(h), 3, 4)
    /\ SubSeq(code.v, 8, 9) = SubSeq(SixDigits(h), 1, 2)

\* A detector's instance exists and is valid.
Succeeds(instance) == Returned(instance) /\ instance.is_valid

(***************************************************************************)
(* C1: NormalizeColor takes hex and is_iterable from the first of          *)
(* IsColorName, IsRgb, IsHexCode (in that order) that is valid, whatever   *)
(* the later detectors say; it is invalid only when none of them is valid. *)
(* The fields are those _validation stores, so the property is stated for  *)
(* every call in which the detectors return, also one whose later alpha    *)
(* conversion raises.                                                      *)
(***************************************************************************)
C1_FirstDetectorWins ==
    (call = "NormalizeColor" /\ Returned(IsColorName(value))) =>
        LET n == IsColorName(value)
            r == IsRgb(value)
            h == IsHexCode(value)
            first == IF n.is_valid THEN n ELSE IF r.is_valid THEN r ELSE h
        IN  /\ result.is_valid = first.is_valid
            /\ result.is_valid =>
                  (result.hex = first.hex /\ result.is_iterable = first.is_iterable)

\* ["tomato"] is a list of names and a list of 6-character strings: both the
\* name and the hex detector accept it, with different hex values.
C1_Witness ==
    /\ call = "NormalizeColor"
    /\ Succeeds(IsColorName(value))
    /\ Succeeds(IsHexCode(value))
    /\ IsColorName(value).hex # IsHexCode(value).hex
    /\ Returned(result)
    /\ result.hex = IsColorName(value).hex

(***************************************************************************)
(* C2: a single colour normalised with a single float alpha gives "#",     *)
(* the alpha pair, then the blue, green and red pairs of the colour's      *)
(* 6-digit hex form; "red" with alpha 0.5 gives "#7f0000ff".               *)
(***************************************************************************)
C2_SingleColorIsAbgr ==
    (call = "NormalizeColor" /\ Returned(result) /\ result.is_valid
        /\ ~result.is_iterable) =>
        /\ alpha.t = "float"
        /\ IsAbgrOf(result.kml_hex, result.hex)
        /\ value.t = "str" /\ value.v \in DOMAIN NAMED_COLORS =>
              IsAbgrOf(result.kml_hex, PyStr(NAMED_COLORS[value.v]))
        /\ (value = RedStr /\ alpha = PyFloat(1, 2)) =>
              result.kml_hex = PyStr(<<"#", "7", "f", "0", "0", "0", "0", "f", "f">>)

C2_Witness ==
    /\ call = "NormalizeColor"
    /\ value = RedStr
    /\ alpha = PyFloat(1, 2)
    /\ result.kml_hex = PyStr(<<"#", "7", "f", "0", "0", "0", "0", "f", "f">>)

(***************************************************************************)
(* C3, as claimed: the alpha pair hex_alpha_to_hex_abgr writes is          *)
(* round(alpha * 255), i.e. the integer nearest to alpha * 255.            *)
(***************************************************************************)
C3_AlphaIsRounded ==
    (call = "hex_alpha_to_hex_abgr" /\ Returned(result)) =>
        LET aa == SubSeq(result.ret.v, 2, 3)
            n == alpha.v[1] * 255
            d == alpha.v[2]
        IN  /\ IsLowerHexPair(aa)
            /\ 2 * (n - LowerHexPairValue(aa) * d) <= d
            /\ 2 * (LowerHexPairValue(aa) * d - n) <= d

(***************************************************************************)
(* C3, amended: the alpha pair is alpha * 255 truncated to an integer      *)
(* (int(alpha * 255)), as two zero-padded lowercase hex digits.            *)
(***************************************************************************)
C3_AlphaIsTruncated ==
    (call = "hex_alpha_to_hex_abgr" /\ Returned(result)) =>
        LET aa == SubSeq(result.ret.v, 2, 3)
            n == alpha.v[1] * 255
            d == alpha.v[2]
        IN  /\ IsLowerHexPair(aa)
            /\ LowerHexPairValue(aa) * d <= n
            /\ n < (LowerHexPairValue(aa) + 1) * d

\* 0.999 * 255 = 254.745: truncated fe, rounded ff.
C3_Witness ==
    /\ call = "hex_alpha_to_hex_abgr"
    /\ Returned(result)
    /\ alpha = PyFloat(999, 1000)
    /\ SubSeq(result.ret.v, 2, 3) = <<"f", "e">>

(***************************************************************************)
(* C4: when none of the three detectors succeeds on the input, building    *)
(* NormalizeColor does not raise: it returns with is_valid false and       *)
(* kml_hex None.                                                           *)
(***************************************************************************)
C4_InvalidColorNeverRaises ==
    (call = "NormalizeColor"
        /\ ~Succeeds(IsColorName(value))
        /\ ~Succeeds(IsRgb(value))
        /\ ~Succeeds(IsHexCode(value))) =>
        (Returned(result) /\ ~result.is_valid /\ result.kml_hex = PyNone)

(***************************************************************************)
(* The shape rule of one hex string: a str of 6 or 7 characters, each a    *)
(* hex digit of either case or the marker "#".                             *)
(***************************************************************************)
HexShape(x) ==
    /\ x.t = "str"
    /\ Len(x.v) \in {6, 7}
    /\ \A i \in DOMAIN x.v :
          x.v[i] \in {"0", "1", "2", "3", "4", "5", "6", "7", "8", "9",
                      "a", "b", "c", "d", "e", "f",
                      "A", "B", "C", "D", "E", "F", "#"}

(***************************************************************************)
(* C5: on a depth-1 input, IsHexCode is valid only if every item has the   *)
(* shape of a single hex string (6 or 7 characters, hex digits and "#").   *)
(***************************************************************************)
C5_HexSequenceItemsHaveHexShape ==
    (call = "IsHexCode" /\ Depth(value) = 1 /\ result.is_valid) =>
        \A i \in DOMAIN value.v : HexShape(value.v[i])

(***************************************************************************)
(* C6: on a depth-0 input, IsHexCode is valid exactly when the input has   *)
(* the hex shape, and then stores the input unchanged; "#ffffff" and       *)
(* "ffffff" are both accepted.                                             *)
(***************************************************************************)
C6_SingleHexShape ==
    (call = "IsHexCode" /\ Depth(value) = 0) =>
        /\ Returned(result)
        /\ result.is_valid <=> HexShape(value)
        /\ ~result.is_iterable
        /\ result.hex = IF HexShape(value) THEN value ELSE PyNone
        /\ value \in {PyStr(<<"#", "f", "f", "f", "f", "f", "f">>),
                      PyStr(<<"f", "f", "f", "f", "f", "f">>)} => result.is_valid

C6_Witness ==
    /\ call = "IsHexCode"
    /\ value = PyStr(<<"f", "f", "f", "f", "f", "f">>)
    /\ result.is_valid
    /\ result.hex = value

(***************************************************************************)
(* The three forms of one colour.                                          *)
(***************************************************************************)
NameForm(x) == x.t = "str" /\ x.v \in DOMAIN NAMED_COLORS

RgbForm(x) ==
    /\ IsSequence(x)
    /\ Len(x.v) = 3
    /\ \A i \in DOMAIN x.v :
          x.v[i].t \in {"int", "bool"} /\ 0 <= x.v[i].v /\ x.v[i].v <= 255

\* The items of a sequence do not all share one form.
MixedForms(x) ==
    /\ IsSequence(x)
    /\ ~ \A i \in DOMAIN x.v : NameForm(x.v[i])
    /\ ~ \A i \in DOMAIN x.v : RgbForm(x.v[i])
    /\ ~ \A i \in DOMAIN x.v : HexShape(x.v[i])

(***************************************************************************)
(* C7: a sequence whose items do not all share one form never yields a     *)
(* list of colour codes; unless it is itself one RGB triple, NormalizeColor*)
(* rejects it (is_valid false, or an exception).                           *)
(***************************************************************************)
C7_MixedSequenceRejected ==
    (call = "NormalizeColor" /\ MixedForms(value)) =>
        /\ ~(Returned(result) /\ result.kml_hex.t = "list")
        /\ ~RgbForm(value) => ~(Returned(result) /\ result.is_valid)

\* ["tomato", "#ff0000"]: a name beside a hex string, let through by the hex
\* detector and refused by the conversion.
C7_Witness ==
    /\ call = "NormalizeColor"
    /\ MixedForms(value)
    /\ \E i, j \in DOMAIN value.v : NameForm(value.v[i]) /\ HexShape(value.v[j])
    /\ Succeeds(IsHexCode(value))
    /\ alpha = PyFloat(1, 1)
    /\ ~Returned(result)

(***************************************************************************)
(* The '#rrggbb' form of an RGB triple: each channel two lowercase digits. *)
(***************************************************************************)
IsHexOfTriple(h, x) ==
    /\ h.t = "str"
    /\ Len(h.v) = 7
    /\ h.v[1] = "#"
    /\ \A k \in 1..3 :
          /\ IsLowerHexPair(SubSeq(h.v, 2 * k, 2 * k + 1))
          /\ LowerHexPairValue(SubSeq(h.v, 2 * k, 2 * k + 1)) = x.v[k].v

(***************************************************************************)
(* C8: IsRgb is valid exactly on a depth-1 triple of integers in 0..255    *)
(* (hex '#rrggbb') and on a depth-2 sequence of such triples (hex the list *)
(* of their conversions, in order); on everything else it is invalid with  *)
(* hex None.  (255, 0, 0) gives "#ff0000"; (256, 0, 0) fails.              *)
(***************************************************************************)
C8_RgbDetector ==
    call = "IsRgb" =>
        LET single == Depth(value) = 1 /\ RgbForm(value)
            many == Depth(value) = 2 /\ \A i \in DOMAIN value.v : RgbForm(value.v[i])
        IN  /\ Returned(result)
            /\ result.is_valid <=> (single \/ many)
            /\ single => (~result.is_iterable /\ IsHexOfTriple(result.hex, value))
            /\ many =>
                  /\ result.is_iterable
                  /\ result.hex.t = "list"
                  /\ Len(result.hex.v) = Len(value.v)
                  /\ \A i \in DOMAIN value.v : IsHexOfTriple(result.hex.v[i], value.v[i])
            /\ ~(single \/ many) => result.hex = PyNone
            /\ value = PyTuple(<<PyInt(255), PyInt(0), PyInt(0)>>) =>
                  result.hex = PyStr(<<"#", "f", "f", "0", "0", "0", "0">>)
            /\ value = PyTuple(<<PyInt(256), PyInt(0), PyInt(0)>>) => ~result.is_valid

C8_Witness ==
    /\ call = "IsRgb"
    /\ Depth(value) = 2
    /\ Len(value.v) = 2
    /\ value.v[1] # value.v[2]
    /\ result.is_valid
    /\ result.hex.v[1] = PyStr(<<"#", "f", "f", "0", "0", "0", "0">>)

C10_ScalarAlphaBroadcast ==
    (call = "NormalizeColor" /\ Returned(result) /\ result.is_valid
        /\ result.is_iterable /\ alpha.t = "float") =>
        /\ result.kml_hex.t = "list"
        /\ Len(result.kml_hex.v) = Len(value.v)
        /\ \A i \in DOMAIN value.v :
              /\ IsAbgrOf(result.kml_hex.v[i], result.hex.v[i])
              /\ NameForm(value.v[i]) =>
                    IsAbgrOf(result.kml_hex.v[i], PyStr(NAMED_COLORS[value.v[i].v]))
              /\ SubSeq(result.kml_hex.v[i].v, 2, 3) = SubSeq(result.kml_hex.v[1].v, 2, 3)
              /\ alpha = PyFloat(1, 1) => SubSeq(result.kml_hex.v[i].v, 2, 3) = <<"f", "f">>

\* ["red", "blue"] with alpha 1.0
C10_Witness ==
    /\ call = "NormalizeColor"
    /\ value = PyList(<<RedStr, BlueStr>>)
    /\ alpha = PyFloat(1, 1)
    /\ result.kml_hex =
          PyList(<<PyStr(<<"#", "f", "f", "0", "0", "0", "0", "f", "f">>),
                   PyStr(<<"#", "f", "f", "f", "f", "0", "0", "0", "0">>)>>)

(***************************************************************************)
(* C11: with a valid colour sequence and a sequence alpha, NormalizeColor  *)
(* raises ValueError when the two lengths differ (["red", "blue"] with     *)
(* [1.0] raises); when they are equal and it returns, the i-th code is     *)
(* what normalising the i-th colour alone with the i-th alpha gives.       *)
(***************************************************************************)
C11_PairwiseAlpha ==
    (call = "NormalizeColor" /\ result.is_valid /\ result.is_iterable
        /\ alpha.t \in UniqueIterable) =>
        /\ Len(alpha.v) # Len(value.v) =>
              (result.raised = "ValueError" /\ result.kml_hex = PyNone)
        /\ (Len(alpha.v) = Len(value.v) /\ Returned(result)) =>
              /\ result.kml_hex.t = "list"
              /\ Len(result.kml_hex.v) = Len(value.v)
              /\ \A i \in DOMAIN value.v :
                    /\ Returned(NormalizeColor(value.v[i], alpha.v[i]))
                    /\ result.kml_hex.v[i] = NormalizeColor(value.v[i], alpha.v[i]).kml_hex
                    /\ IsAbgrOf(result.kml_hex.v[i], result.hex.v[i])

\* ["red", "blue"] with alpha [1.0, 0.5]
C11_Witness ==
    /\ call = "NormalizeColor"
    /\ value = PyList(<<RedStr, BlueStr>>)
    /\ alpha = PyList(<<PyFloat(1, 1), PyFloat(1, 2)>>)
    /\ result.kml_hex =
          PyList(<<PyStr(<<"#", "f", "f", "0", "0", "0", "0", "f", "f">>),
                   PyStr(<<"#", "7", "f", "f", "f", "0", "0", "0", "0">>)>>)

(***************************************************************************)
(* C12: a single valid colour with a sequence alpha always raises          *)
(* ValueError and yields no code ("red" with [1.0] raises).                *)
(***************************************************************************)
C12_SingleColorSequenceAlpha ==
    (call = "NormalizeColor" /\ result.is_valid /\ ~result.is_iterable
        /\ alpha.t \in UniqueIterable) =>
        (result.raised = "ValueError" /\ result.kml_hex = PyNone)

\* "red" with alpha [1.0]
C12_Witness ==
    /\ call = "NormalizeColor"
    /\ value = RedStr
    /\ alpha = PyList(<<PyFloat(1, 1)>>)
    /\ result.is_valid
    /\ result.raised = "ValueError"

(***************************************************************************)
(* The alpha values of a call (the items of a sequence alpha, or the       *)
(* single alpha) and the hex values the detector found; an alpha value is  *)
(* unusable when it is not a float or lies outside [0, 1], a hex value     *)
(* when its marker-free form is not exactly six hex digits.                *)
(***************************************************************************)
AlphaValues(a) == IF a.t \in UniqueIterable THEN Range(a.v) ELSE {a}

UnusableAlpha(a) == a.t # "float" \/ a.v[1] < 0 \/ a.v[1] > a.v[2]

HexValues(h) == IF h.t \in UniqueIterable THEN Range(h.v) ELSE {h}

UnusableHex(h) ==
    \/ h.t # "str"
    \/ Len(SixDigits(h)) # 6
    \/ \E i \in DOMAIN SixDigits(h) : SixDigits(h)[i] \notin (HEX_PATTERN \ {"#"})

(***************************************************************************)
(* C13: for a valid colour input, single or sequence, NormalizeColor       *)
(* raises and yields no code whenever an alpha value is not a float or is  *)
(* outside [0, 1], or a hex value is not six hex digits once the marker    *)
(* is stripped.                                                            *)
(***************************************************************************)
C13_BadAlphaOrHexRaises ==
    (call = "NormalizeColor" /\ result.is_valid
        /\ \/ \E a \in AlphaValues(alpha) : UnusableAlpha(a)
           \/ \E h \in HexValues(result.hex) : UnusableHex(h)) =>
        (~Returned(result) /\ result.kml_hex = PyNone)

\* The same with at least one colour in the input: this much the code keeps.
BadAlphaOrHexRaisesOnSomeColor ==
    (call = "NormalizeColor" /\ result.is_valid
        /\ (result.is_iterable => Len(value.v) > 0)
        /\ \/ \E a \in AlphaValues(alpha) : UnusableAlpha(a)
           \/ \E h \in HexValues(result.hex) : UnusableHex(h)) =>
        (~Returned(result) /\ result.kml_hex = PyNone)

(***************************************************************************)
(* C14, as claimed: a code produced by a successful normalisation, given   *)
(* to NormalizeColor again, comes back unchanged as the new kml_hex.       *)
(***************************************************************************)
C14_NormalizedCodeIsFixedPoint ==
    call = "NormalizeColor(kml_hex)" =>
        (Returned(result) /\ result.is_valid /\ result.kml_hex = value)

(***************************************************************************)
(* C14, amended: a produced code is "#" and eight hex digits, which no     *)
(* detector accepts (a hex colour has 6 or 7 characters), so a code, or a  *)
(* non-empty sequence of codes, given to NormalizeColor again is reported  *)
(* invalid: it returns with is_valid false and hex and kml_hex None.       *)
(***************************************************************************)
C14_NormalizedCodeIsRejected ==
    (call = "NormalizeColor(kml_hex)" /\ (IsSequence(value) => Len(value.v) > 0)) =>
        /\ \A c \in HexValues(value) : c.t = "str" /\ Len(c.v) = 9 /\ c.v[1] = "#"
        /\ Returned(result)
        /\ ~result.is_valid
        /\ result.hex = PyNone
        /\ result.kml_hex = PyNone

\* "red" with alpha 0.5 gave "#7f0000ff", which is given back.
C14_Witness ==
    /\ call = "NormalizeColor(kml_hex)"
    /\ value = PyStr(<<"#", "7", "f", "0", "0", "0", "0", "f", "f">>)
    /\ alpha = PyFloat(1, 2)
    /\ ~result.is_valid

(***************************************************************************)
(* The shape helpers: dimensional_count(value) and                         *)
(* iterable_specific_type(value, type_).  The values are those of the      *)
(* colour calls, and arrays, Series, lists of numpy scalars and the        *)
(* scalars wrapped two and three lists deep.                               *)
(***************************************************************************)
MaxArr == 2

NpScalars == {NpInt64(0), NpInt64(7), NpFloat64(1, 2), NpStr(<<"a">>)}

\* One axis: every item has the array's dtype.
Arrays1 == {NdArray([i \in 1..k |-> s]) : s \in NpScalars, k \in 0..MaxArr}

\* np.array([[0], [0]]) and np.array([[[0], [0]], [[0], [0]]])
Arrays2 == {NdArray([i \in 1..k |-> a]) : a \in Arrays1 \ {NdArray(<<>>)}, k \in 1..MaxArr}

Arrays3 == {NdArray([i \in 1..MaxArr |-> a]) : a \in {b \in Arrays2 : b.v[1].v[1] = NpInt64(0)}}

SeriesItems == {PyInt(0), PyFloat(1, 2), RedStr, PyList(<<PyInt(0)>>)}

SeriesValues == {Series(xs) : xs \in SeqsUpTo(SeriesItems, MaxArr)}

\* Lists and tuples that hold numpy scalars, alone or next to Python values.
NpLists ==
    {PyList(xs) : xs \in SeqsUpTo(NpScalars \cup {PyInt(1), PyFloat(1, 2), RedStr}, MaxArr)}
    \cup {PyTuple(xs) : xs \in SeqsUpTo({NpInt64(0), PyBool(TRUE)}, MaxArr)}

ShapeScalars == Scalars \cup NpScalars

Wrapped ==
    {PyList(<<PyList(<<a>>)>>) : a \in ShapeScalars}
    \cup {PyList(<<PyList(<<PyList(<<a>>)>>)>>) : a \in ShapeScalars}

ShapeValues ==
    Values \cup Arrays1 \cup Arrays2 \cup Arrays3 \cup SeriesValues \cup NpLists \cup Wrapped

TargetTypes == {"int", "float", "str", "bool", "list", "tuple"}

InitShape ==
    /\ call = "none"
    /\ value \in ShapeValues
    /\ alpha = PyNone
    /\ args \in {<<>>} \cup {<<type_>> : type_ \in TargetTypes}
    /\ result = [raised |-> "none"]

CallDimensionalCount ==
    /\ call = "none" /\ Len(args) = 0
    /\ call' = "dimensional_count"
    /\ result' = [raised |-> "none", ret |-> dimensional_count(value)]
    /\ UNCHANGED <<value, alpha, args>>

CallIterableSpecificType ==
    /\ call = "none" /\ Len(args) = 1
    /\ call' = "iterable_specific_type"
    /\ result' = [raised |-> "none", ret |-> iterable_specific_type(value, args[1])]
    /\ UNCHANGED <<value, alpha, args>>

NextShape ==
    \/ CallDimensionalCount
    \/ CallIterableSpecificType

SpecShape == InitShape /\ [][NextShape]_vars

(***************************************************************************)
(* Vocabulary of the shape properties.                                     *)
(***************************************************************************)
\* The nesting depth of a value built of tuples and lists only.
RECURSIVE NestingDepth(_)
NestingDepth(x) ==
    IF x.t \in {"tuple", "list"}
    THEN IF Len(x.v) = 0
         THEN 1
         ELSE 1 + Max({NestingDepth(x.v[i]) : i \in DOMAIN x.v})
    ELSE 0

\* A numpy integer, float or string scalar as the int, float or str it stands for.
Normalized(x) ==
    CASE x.t = "np.int64" -> PyInt(x.v)
      [] x.t = "np.float64" -> PyFloat(x.v[1], x.v[2])
      [] x.t = "np.str_" -> PyStr(x.v)
      [] OTHER -> x

\* The innermost elements of a value.
RECURSIVE Leaves(_)
Leaves(x) ==
    IF x.t \in UniqueIterable
    THEN UNION {Leaves(x.v[i]) : i \in DOMAIN x.v}
    ELSE {x}

\* A non-empty list or tuple of (int, int, int) tuples or lists.
IsIntTriples(x) ==
    /\ x.t \in {"tuple", "list"}
    /\ Len(x.v) > 0
    /\ \A i \in DOMAIN x.v :
          /\ x.v[i].t \in {"tuple", "list"}
          /\ Len(x.v[i].v) = TripleLen
          /\ \A j \in DOMAIN x.v[i].v : x.v[i].v[j].t = "int"

(***************************************************************************)
(* C15: dimensional_count returns 0 for a value that is no tuple, list,    *)
(* array or Series, 1 for an empty one, and for a non-empty one 1 plus     *)
(* the greatest depth of its elements, arrays and Series taken as the      *)
(* nested lists tolist() gives; [[a]] has depth 2 and [[[a]]] depth 3 for  *)
(* every scalar a.                                                         *)
(***************************************************************************)
C15_DimensionalCount ==
    call = "dimensional_count" =>
        /\ Returned(result)
        /\ value.t \notin {"tuple", "list", "ndarray", "Series"} => result.ret = 0
        /\ (value.t \in {"tuple", "list", "ndarray", "Series"} /\ Len(value.v) = 0) =>
              result.ret = 1
        /\ (value.t \in {"tuple", "list", "ndarray", "Series"} /\ Len(value.v) > 0) =>
              result.ret = 1 + Max({NestingDepth(tolist(value).v[i]) : i \in DOMAIN value.v})
        /\ \A a \in ShapeScalars :
              /\ value = PyList(<<PyList(<<a>>)>>) => result.ret = 2
              /\ value = PyList(<<PyList(<<PyList(<<a>>)>>)>>) => result.ret = 3

\* np.array([[0], [0]]) has depth 2.
C15_Witness ==
    /\ call = "dimensional_count"
    /\ value = NdArray(<<NdArray(<<NpInt64(0)>>), NdArray(<<NpInt64(0)>>)>>)
    /\ result.ret = 2

C17_OtherDepthsAreFalse ==
    (call = "iterable_specific_type" /\ Depth(value) \notin {1, 2}) =>
        (Returned(result) /\ result.ret = FALSE)

\* "red" checked against str: depth 0
C17_Witness ==
    /\ call = "iterable_specific_type"
    /\ value = RedStr
    /\ args = <<"str">>
    /\ result.ret = FALSE

(***************************************************************************)
(* ValidateGeometry._validate_bool                                         *)
(***************************************************************************)
\* The value of a string of decimal digits.
DigitValue(c) == CHOOSE k \in 0..9 : HexDigits[k + 1] = c

IsDecimal(cs) == Len(cs) > 0 /\ \A i \in DOMAIN cs : cs[i] \in {HexDigits[k] : k \in 1..10}

RECURSIVE DecimalValue(_)
DecimalValue(cs) ==
    IF Len(cs) = 0 THEN 0
    ELSE 10 * DecimalValue(SubSeq(cs, 1, Len(cs) - 1)) + DigitValue(cs[Len(cs)])

\* int(value): an int is itself, a float is truncated towards zero, a str is
\* parsed (the strs of the universe hold no sign, blank or underscore) and
\* raises ValueError when it is no number; a value of another type raises
\* TypeError.
IntOf(x) ==
    CASE x.t \in {"int", "bool", "np.int64"} -> [raised |-> "none", ret |-> x.v]
      [] x.t \in {"float", "np.float64"} ->
            [raised |-> "none",
             ret |-> IF x.v[1] >= 0 THEN x.v[1] \div x.v[2] ELSE -((-x.v[1]) \div x.v[2])]
      [] x.t \in {"str", "np.str_"} ->
            IF IsDecimal(x.v) THEN [raised |-> "none", ret |-> DecimalValue(x.v)]
            ELSE Raise("ValueError")
      [] OTHER -> Raise("TypeError")

\* bool(value)
Truth(x) ==
    CASE x.t \in {"int", "bool", "np.int64"} -> x.v # 0
      [] x.t \in {"float", "np.float64"} -> x.v[1] # 0
      [] x.t \in {"str", "np.str_", "list", "tuple"} -> Len(x.v) > 0
      [] OTHER -> FALSE

BoolAcceptedUpToTwo == {0, 1, 2}

\* int(value) in [0, 1]
BoolAccepted == {0, 1}

\* Every exception under the try, the ValueError it raises itself included,
\* leaves as a ValueError.
ValidateGeometry_validate_bool(x) ==
    IF ~IsInstance(x, "bool")
    THEN IF Returned(IntOf(x)) /\ IntOf(x).ret \in BoolAccepted
         THEN [raised |-> "none", ret |-> PyBool(Truth(x))]
         ELSE Raise("ValueError")
    ELSE [raised |-> "none", ret |-> x]

(***************************************************************************)
(* geoseries_to_kml                                                        *)
(***************************************************************************)
\* A shapely geometry.
Geometry(k) == [t |-> "geometry", v |-> k]

\* The geoseries block: the number of geometries, or the raise.  The message
\* of the second raise slices geoseries, which a value that cannot be
\* subscripted answers with TypeError.
geoseries_length(geoseries) ==
    IF ~IsInstance(geoseries, "str")
    THEN IF ~iterable_specific_type(geoseries, "BaseGeometry")
         THEN IF geoseries.t \in UniqueIterable THEN Raise("ValueError") ELSE Raise("TypeError")
         ELSE [raised |-> "none", ret |-> PyLen(geoseries)]
    ELSE Raise("ValueError")

\* The extrude block, and the tessellate block, which is the same code: the
\* flag as the block leaves it (a scalar is replaced by [flag] * length), or
\* the raise.
validate_flag(flag, length) ==
    IF IsInstance(flag, "bool") \/ IsInstance(flag, "Numeric")
    THEN IF IsInstance(flag, "bool") \/ value_range_1(flag)
         THEN [raised |-> "none", ret |-> PyList([i \in 1..length |-> flag])]
         ELSE Raise("ValueError")
    ELSE IF iterable_specific_type(flag, "bool")
    THEN IF length # PyLen(flag)
         THEN Raise("ValueError")
         ELSE [raised |-> "none", ret |-> flag]
    ELSE IF iterable_specific_type(flag, "Numeric")
    THEN IF ~(\A i \in DOMAIN PyItems(flag) : value_range_1(PyItems(flag)[i]))
         THEN Raise("ValueError")
         ELSE IF length # PyLen(flag)
         THEN Raise("ValueError")
         ELSE [raised |-> "none", ret |-> flag]
    ELSE Raise("ValueError")

\* The function ends after the tessellate block: altitude_mode is never read
\* and nothing is returned.  The record keeps the locals as the body leaves
\* them.
geoseries_to_kml(geoseries, extrude, tessellate, altitude_mode) ==
    LET length == geoseries_length(geoseries) IN
    IF ~Returned(length) THEN Raise(length.raised)
    ELSE LET e == validate_flag(extrude, length.ret) IN
         IF ~Returned(e) THEN Raise(e.raised)
         ELSE LET t == validate_flag(tessellate, length.ret) IN
              IF ~Returned(t) THEN Raise(t.raised)
              ELSE [raised |-> "none", ret |-> PyNone, length |-> length.ret,
                    extrude |-> e.ret, tessellate |-> t.ret,
                    altitude_mode |-> altitude_mode]

(***************************************************************************)
(* The geometry calls and their arguments.                                 *)
(***************************************************************************)
MaxGeoms == 2

MaxFlags == 2

BoolInputs ==
    { PyBool(TRUE), PyBool(FALSE), PyInt(1), PyInt(0), PyInt(2), PyInt(-1),
      PyFloat(1, 1), PyFloat(0, 1), PyFloat(1, 2), PyFloat(3, 2), PyFloat(5, 2), PyFloat(-1, 2),
      PyStr(<<"y", "e", "s">>), PyStr(<<"1">>), PyStr(<<"0">>), PyStr(<<"2">>),
      PyStr(<<"0", "1">>), PyStr(<<>>), NpInt64(0), NpInt64(7),
      PyNone, PyList(<<>>), PyList(<<PyInt(1)>>) }

Geometries == {Geometry(1), Geometry(2)}

\* Lists and a GeoSeries of geometries, and what is no sequence of
\* geometries: a str, a number, None, a list with another item, a nested list.
GeoSeriesValues ==
    {PyList(xs) : xs \in SeqsUpTo(Geometries, MaxGeoms)}
    \cup {Series([i \in 1..k |-> Geometry(1)]) : k \in 0..MaxGeoms}
    \cup { RedStr, PyInt(5), PyNone, PyList(<<Geometry(1), PyInt(0)>>),
           PyList(<<PyList(<<Geometry(1)>>)>>) }

FlagScalars ==
    { PyBool(TRUE), PyBool(FALSE), PyInt(1), PyInt(0), PyInt(2), PyFloat(1, 2),
      PyStr(<<"y", "e", "s">>), PyNone }

FlagValues ==
    FlagScalars \cup {PyList(xs) : xs \in SeqsUpTo({PyBool(TRUE), PyInt(1), PyInt(2)}, MaxFlags)}

ClampToGround ==
    PyStr(<<"c", "l", "a", "m", "p", "_", "t", "o", "_", "g", "r", "o", "u", "n", "d">>)

Absolute == PyStr(<<"a", "b", "s", "o", "l", "u", "t", "e">>)

AltitudeModeValues ==
    {ClampToGround, PyInt(5)} \cup {PyList([i \in 1..k |-> Absolute]) : k \in 0..MaxFlags}

InitGeometry ==
    /\ call = "none"
    /\ alpha = PyNone
    /\ result = [raised |-> "none"]
    /\ \/ value \in BoolInputs /\ args = <<>>
       \/ /\ value \in GeoSeriesValues
          /\ args \in FlagValues \X FlagValues \X AltitudeModeValues

CallValidateBool ==
    /\ call = "none" /\ Len(args) = 0
    /\ call' = "_validate_bool"
    /\ result' = ValidateGeometry_validate_bool(value)
    /\ UNCHANGED <<value, alpha, args>>

CallGeoseriesToKml ==
    /\ call = "none" /\ Len(args) = 3
    /\ call' = "geoseries_to_kml"
    /\ result' = geoseries_to_kml(value, args[1], args[2], args[3])
    /\ UNCHANGED <<value, alpha, args>>

NextGeometry ==
    \/ CallValidateBool
    \/ CallGeoseriesToKml

SpecGeometry == InitGeometry /\ [][NextGeometry]_vars

(***************************************************************************)
(* C18: _validate_bool returns a bool unchanged.  Any other value is       *)
(* converted with int(): when that gives 0 or 1 a bool is returned, and    *)
(* everything else raises ValueError.  True gives True, 1 gives True, 0    *)
(* gives False, 2 raises and "yes" raises.                                 *)
(***************************************************************************)
C18_BoolCoercion ==
    call = "_validate_bool" =>
        /\ value.t = "bool" => (Returned(result) /\ result.ret = value)
        /\ value.t # "bool" =>
              /\ Returned(result) <=> (Returned(IntOf(value)) /\ IntOf(value).ret \in {0, 1})
              /\ Returned(result) => result.ret.t = "bool"
              /\ ~Returned(result) => result.raised = "ValueError"
        /\ value = PyBool(TRUE) => result.ret = PyBool(TRUE)
        /\ value = PyInt(1) => (Returned(result) /\ result.ret = PyBool(TRUE))
        /\ value = PyInt(0) => (Returned(result) /\ result.ret = PyBool(FALSE))
        /\ value = PyInt(2) => ~Returned(result)
        /\ value = PyStr(<<"y", "e", "s">>) => ~Returned(result)

\* 0 gives False
C18_Witness ==
    /\ call = "_validate_bool"
    /\ value = PyInt(0)
    /\ Returned(result)
    /\ result.ret = PyBool(FALSE)

(***************************************************************************)
(* The flags of a geoseries_to_kml call, by name.                          *)
(***************************************************************************)
FlagNames == {"extrude", "tessellate", "altitude_mode"}

FlagArg(name) ==
    CASE name = "extrude" -> args[1]
      [] name = "tessellate" -> args[2]
      [] name = "altitude_mode" -> args[3]

FlagLocal(name) ==
    CASE name = "extrude" -> result.extrude
      [] name = "tessellate" -> result.tessellate
      [] name = "altitude_mode" -> result.altitude_mode

\* The flag has one value per geometry: as many items as there are geometries.
OnePerGeometry(flag) == IsSequence(flag) /\ Len(flag.v) = Len(value.v)

FlagRule(name) ==
    /\ (IsSequence(FlagArg(name)) /\ Len(FlagArg(name).v) # Len(value.v)) =>
          ~Returned(result)
    /\ (~IsSequence(FlagArg(name)) /\ Returned(result)) =>
          /\ OnePerGeometry(FlagLocal(name))
          /\ \A i \in DOMAIN FlagLocal(name).v : FlagLocal(name).v[i] = FlagArg(name)

(***************************************************************************)
(* C20: in geoseries_to_kml each of extrude, tessellate and altitude_mode  *)
(* that is given as a sequence has as many items as there are geometries,  *)
(* or the call raises; one given as a scalar is broadcast to one value     *)
(* per geometry.                                                           *)
(***************************************************************************)
C20_FlagsMatchGeometries ==
    (call = "geoseries_to_kml" /\ Returned(geoseries_length(value))) =>
        \A name \in FlagNames : FlagRule(name)

\* The same for extrude and tessellate alone: this much the code keeps.
ExtrudeAndTessellateMatchGeometries ==
    (call = "geoseries_to_kml" /\ Returned(geoseries_length(value))) =>
        \A name \in {"extrude", "tessellate"} : FlagRule(name)

(***************************************************************************)
(* The items of a flag: the flag itself when it is a scalar.               *)
(***************************************************************************)
FlagItems(flag) == IF IsSequence(flag) THEN flag.v ELSE <<flag>>

\* A bool, or a number equal to 0 or to 1.
IsBoolOrZeroOne(x) ==
    CASE x.t = "bool" -> TRUE
      [] x.t = "int" -> x.v \in {0, 1}
      [] x.t = "float" -> x.v[1] = 0 \/ x.v[1] = x.v[2]
      [] OTHER -> FALSE

\* A bool, or a number of the interval from 0 to 1.
IsBoolOrUnitInterval(x) ==
    CASE x.t = "bool" -> TRUE
      [] x.t = "int" -> x.v \in {0, 1}
      [] x.t = "float" -> 0 <= x.v[1] /\ x.v[1] <= x.v[2]
      [] OTHER -> FALSE

(***************************************************************************)
(* C21: geoseries_to_kml accepts an extrude or tessellate flag only if it  *)
(* is a bool or 0 or 1: a scalar or an item of a sequence that is another  *)
(* number, or that is neither a number nor a bool, makes the call raise.   *)
(***************************************************************************)
C21_FlagsAreBoolOrZeroOne ==
    (call = "geoseries_to_kml" /\ Returned(result)) =>
        \A name \in {"extrude", "tessellate"} :
            \A i \in DOMAIN FlagItems(FlagArg(name)) :
                IsBoolOrZeroOne(FlagItems(FlagArg(name))[i])

\* What the code keeps: an accepted flag is a bool or a number from 0 to 1.
FlagsAreBoolOrUnitInterval ==
    (call = "geoseries_to_kml" /\ Returned(result)) =>
        \A name \in {"extrude", "tessellate"} :
            \A i \in DOMAIN FlagItems(FlagArg(name)) :
                IsBoolOrUnitInterval(FlagItems(FlagArg(name))[i])

(***************************************************************************)
(* C28: for a value that is no bool and that _validate_bool accepts, the   *)
(* bool returned is True exactly when int(value) is 1 and False exactly    *)
(* when int(value) is 0.                                                   *)
(***************************************************************************)
C28_ResultAgreesWithInt ==
    (call = "_validate_bool" /\ value.t # "bool" /\ Returned(result)) =>
        /\ result.ret = PyBool(TRUE) <=> IntOf(value).ret = 1
        /\ result.ret = PyBool(FALSE) <=> IntOf(value).ret = 0

\* What the code keeps: the bool returned is the truth value of the input
\* itself, which for an int is the claimed one.
ResultIsTruthOfValue ==
    (call = "_validate_bool" /\ value.t # "bool" /\ Returned(result)) =>
        /\ result.ret = PyBool(Truth(value))
        /\ value.t = "int" => (result.ret = PyBool(TRUE) <=> IntOf(value).ret = 1)

(***************************************************************************)
(* The form of a KML colour code: "#" and eight hex digits.                *)
(***************************************************************************)
HexDigitChars ==
    {"0", "1", "2", "3", "4", "5", "6", "7", "8", "9",
     "a", "b", "c", "d", "e", "f", "A", "B", "C", "D", "E", "F"}

IsKmlCode(code) ==
    /\ code.t = "str"
    /\ Len(code.v) = 9
    /\ code.v[1] = "#"
    /\ \A i \in 2..9 : code.v[i] \in HexDigitChars

NormalizeColorCalls == {"NormalizeColor", "NormalizeColor(kml_hex)"}

(***************************************************************************)
(* C29: when NormalizeColor returns with is_valid true, kml_hex is one     *)
(* code for a single colour and a list with one code per input colour for  *)
(* a sequence, and every code is "#" followed by eight hex digits; when it *)
(* returns, kml_hex is None exactly when is_valid is false.                *)
(***************************************************************************)
C29_KmlHexForm ==
    (call \in NormalizeColorCalls /\ Returned(result)) =>
        /\ result.kml_hex = PyNone <=> ~result.is_valid
        /\ (result.is_valid /\ ~result.is_iterable) => IsKmlCode(result.kml_hex)
        /\ (result.is_valid /\ result.is_iterable) =>
              /\ result.kml_hex.t = "list"
              /\ Len(result.kml_hex.v) = Len(value.v)
              /\ \A i \in DOMAIN result.kml_hex.v : IsKmlCode(result.kml_hex.v[i])

\* two colours with two alpha values give two codes
C29_Witness ==
    /\ call = "NormalizeColor"
    /\ Returned(result)
    /\ result.is_valid
    /\ result.is_iterable
    /\ alpha.t = "list"
    /\ Len(result.kml_hex.v) = 2
    /\ result.kml_hex.v[1] # result.kml_hex.v[2]

(***************************************************************************)
(* The field validators of validation.py that run before pydantic's own:   *)
(* ValidateGeoSeries._validate_geometry and                                *)
(* ValidateGeometry._validate_geometry.                                    *)
(***************************************************************************)
ValidateGeoSeries_validate_geometry(geoseries) ==
    IF ~IsInstance(geoseries, "str") /\ IsInstance(geoseries, "Iterable")
    THEN IF ~iterable_specific_type(geoseries, "BaseGeometry")
         THEN Raise("ValueError")
         ELSE [raised |-> "none", ret |-> geoseries]
    ELSE Raise("ValueError")

\* Geometry 3 stands for a polygon whose ring crosses itself, the one
\* geometry of the universe that shapely.is_valid denies; shapely.make_valid
\* answers it with geometry 4, the two triangles, and a valid geometry with
\* itself.
Bowtie == Geometry(3)

shapely_is_valid(geometry) == geometry # Bowtie

shapely_make_valid(geometry) == IF geometry = Bowtie THEN Geometry(4) ELSE geometry

\* pygeoif.shape(geometry): the same shape as a pygeoif object.
pygeoif_shape(geometry) == [t |-> "pygeoif", v |-> geometry.v]

\* The record keeps, next to the value returned, the geometry that was
\* handed to pygeoif.shape.
ValidateGeometry_validate_geometry_no_repair(geometry) ==
    IF ~IsInstance(geometry, "BaseGeometry")
    THEN Raise("ValueError")
    ELSE [raised |-> "none", ret |-> pygeoif_shape(geometry), converted |-> geometry]

ValidateGeometry_validate_geometry_converted(geometry) ==
    [raised |-> "none", ret |-> pygeoif_shape(geometry), converted |-> geometry]

ValidateGeometry_validate_geometry(geometry) ==
    IF ~IsInstance(geometry, "BaseGeometry")
    THEN Raise("ValueError")
    ELSE IF ~shapely_is_valid(geometry)
    THEN ValidateGeometry_validate_geometry_converted(shapely_make_valid(geometry))
    ELSE ValidateGeometry_validate_geometry_converted(geometry)

(***************************************************************************)
(* ValidateData: convert_fields, then pydantic's validation of the fields  *)
(* name: str, value: str, display_name: Optional[str] = None.              *)
(***************************************************************************)
\* An object whose __str__ raises.
Unprintable == [t |-> "object", v |-> "__str__ raises"]

RECURSIVE NatDigits(_)
NatDigits(n) ==
    IF n < 10 THEN <<HexDigits[n + 1]>>
    ELSE NatDigits(n \div 10) \o <<HexDigits[(n % 10) + 1]>>

\* str(val) for a str, an int, a bool, a float with denominator 1 or 2 and
\* an object whose __str__ raises.
StrOf(val) ==
    CASE val.t \in {"str", "np.str_"} -> [raised |-> "none", ret |-> PyStr(val.v)]
      [] val.t \in {"int", "np.int64"} ->
            [raised |-> "none",
             ret |-> PyStr(IF val.v < 0 THEN <<"-">> \o NatDigits(-val.v) ELSE NatDigits(val.v))]
      [] val.t = "bool" ->
            [raised |-> "none",
             ret |-> PyStr(IF val.v = 1 THEN <<"T", "r", "u", "e">>
                           ELSE <<"F", "a", "l", "s", "e">>)]
      [] val.t = "float" ->
            [raised |-> "none",
             ret |-> PyStr((IF val.v[1] < 0 THEN <<"-">> ELSE <<>>)
                           \o NatDigits((IF val.v[1] < 0 THEN -val.v[1] ELSE val.v[1]) \div val.v[2])
                           \o <<".">>
                           \o (IF val.v[1] % val.v[2] = 0 THEN <<"0">> ELSE <<"5">>))]
      [] val.t = "none" -> [raised |-> "none", ret |-> PyStr(<<"N", "o", "n", "e">>)]
      [] val.t = "object" -> Raise("Exception")

\* str(val) if val is not None else None
ConvertField(val) == IF val # PyNone THEN StrOf(val) ELSE [raised |-> "none", ret |-> PyNone]

\* The dict comprehension over input_data.items() under the try: a value
\* without items() and a str() that raises both leave as ValueError.
ValidateData_convert_fields_each(input_data, each) ==
    IF \E i \in DOMAIN each : ~Returned(each[i])
    THEN Raise("ValueError")
    ELSE [raised |-> "none",
          ret |-> Dict([i \in DOMAIN each |-> <<input_data.v[i][1], each[i].ret>>])]

ValidateData_convert_fields(input_data) ==
    IF input_data.t # "dict"
    THEN Raise("ValueError")
    ELSE ValidateData_convert_fields_each(
             input_data, [i \in DOMAIN input_data.v |-> ConvertField(input_data.v[i][2])])

HasKey(d, key) == \E i \in DOMAIN d.v : d.v[i][1] = key

DictGet(d, key) == d.v[CHOOSE i \in DOMAIN d.v : d.v[i][1] = key][2]

\* A field annotated str must be present and a str; Optional[str] = None may
\* also be absent or None.
FieldIsStr(d, key) == HasKey(d, key) /\ IsInstance(DictGet(d, key), "str")

FieldIsOptionalStr(d, key) ==
    HasKey(d, key) => (DictGet(d, key) = PyNone \/ IsInstance(DictGet(d, key), "str"))

\* The model after validation: its three fields, or the ValidationError.
ValidateData_fields(parsed) ==
    IF /\ FieldIsStr(parsed, "name")
       /\ FieldIsStr(parsed, "value")
       /\ FieldIsOptionalStr(parsed, "display_name")
    THEN [raised |-> "none", parsed |-> parsed,
          ret |-> [name |-> DictGet(parsed, "name"),
                   value |-> DictGet(parsed, "value"),
                   display_name |-> IF HasKey(parsed, "display_name")
                                    THEN DictGet(parsed, "display_name") ELSE PyNone]]
    ELSE [raised |-> "ValidationError", parsed |-> parsed]

ValidateData_init(parsed) ==
    IF ~Returned(parsed) THEN Raise(parsed.raised) ELSE ValidateData_fields(parsed.ret)

ValidateData(input_data) == ValidateData_init(ValidateData_convert_fields(input_data))

(***************************************************************************)
(* dataframe_to_extended_data_elements.  A DataFrame is its column names   *)
(* and its records, the dicts of to_dict(orient="records").  The record    *)
(* returned counts the attribute records (MakeData) and the ExtendedData   *)
(* elements the call has built when it ends.                               *)
(***************************************************************************)
DataFrame(columns, records) ==
    [t |-> "DataFrame", v |-> [columns |-> columns, records |-> records]]

\* The loop.  MakeData is neither defined nor imported in data.py, so the
\* first evaluation of the call in the inner loop raises NameError; the
\* inner loop runs when a record and display_names both hold an item.
dataframe_to_extended_data_elements_loop(dataframe, display_names) ==
    IF \E i \in DOMAIN dataframe.v.records :
          Len(dataframe.v.records[i].v) > 0 /\ Len(display_names) > 0
    THEN [raised |-> "NameError", records |-> 0,
          elements |-> Min({i \in DOMAIN dataframe.v.records :
                               Len(dataframe.v.records[i].v) > 0}) - 1]
    ELSE [raised |-> "none", records |-> 0,
          elements |-> Len(dataframe.v.records),
          ret |-> [i \in DOMAIN dataframe.v.records |-> <<>>]]

dataframe_to_extended_data_elements_unchecked(dataframe, display_names) ==
    IF display_names # PyNone /\ IsInstance(display_names, "Iterable")
    THEN dataframe_to_extended_data_elements_loop(dataframe, PyItems(display_names))
    ELSE dataframe_to_extended_data_elements_loop(
             dataframe, [i \in DOMAIN dataframe.v.columns |-> PyNone])

dataframe_to_extended_data_elements(dataframe, display_names) ==
    IF display_names # PyNone /\ IsInstance(display_names, "Iterable")
    THEN IF PyLen(display_names) # Len(dataframe.v.columns)
         THEN [raised |-> "ValueError", records |-> 0, elements |-> 0]
         ELSE dataframe_to_extended_data_elements_loop(dataframe, PyItems(display_names))
    ELSE dataframe_to_extended_data_elements_loop(
             dataframe, [i \in DOMAIN dataframe.v.columns |-> PyNone])

(***************************************************************************)
(* The validator calls and their arguments.                                *)
(***************************************************************************)
MaxCols == 2

MaxRows == 2

PrefStr == PyStr(<<"p", "r", "e", "f">>)

FieldValues ==
    { PrefStr, PyStr(<<>>), PyInt(12), PyInt(-3), PyBool(TRUE), PyFloat(1, 2),
      PyNone, Unprintable }

\* The keyword arguments of ValidateData(...): name and value, and
\* display_name or not.
Rows ==
    {Dict(<<<<"name", n>>, <<"value", v>>>>) :
        n \in {PrefStr, PyInt(12), PyNone}, v \in FieldValues}
    \cup {Dict(<<<<"name", PrefStr>>, <<"value", v>>, <<"display_name", d>>>>) :
            v \in FieldValues, d \in FieldValues}
    \cup {Dict(<<<<"name", PrefStr>>>>), PyDict}

ValidatorInputs ==
    GeoSeriesValues
    \cup { PySet(<<Geometry(1)>>), PySet(<<>>), PyTuple(<<Geometry(1), Geometry(2)>>),
           NdArray(<<Geometry(1)>>), Series(<<Geometry(1), PyNone>>),
           Geometry(1), Geometry(2), Bowtie, PyList(<<Bowtie>>), PyFloat(1, 2) }
    \cup Rows

ColumnNames == <<"pref", "city", "town">>

DataFrames ==
    {DataFrame(SubSeq(ColumnNames, 1, c),
               [r \in 1..n |-> Dict([i \in 1..c |-> <<ColumnNames[i], PyInt(r)>>])]) :
        c \in 0..MaxCols, n \in 0..MaxRows}

DisplayNames ==
    {PyList([i \in 1..k |-> PrefStr]) : k \in 0..(MaxCols + 1)}
    \cup {PyTuple([i \in 1..k |-> PrefStr]) : k \in 0..(MaxCols + 1)}
    \cup {PyNone, PyInt(5), PrefStr, PyStr(<<"a", "b">>), PySet(<<PrefStr>>)}

InitValidate ==
    /\ call = "none"
    /\ alpha = PyNone
    /\ result = [raised |-> "none"]
    /\ \/ value \in ValidatorInputs /\ args = <<>>
       \/ value \in DataFrames /\ args \in {<<d>> : d \in DisplayNames}

CallValidateGeoSeries ==
    /\ call = "none" /\ Len(args) = 0
    /\ call' = "ValidateGeoSeries._validate_geometry"
    /\ result' = ValidateGeoSeries_validate_geometry(value)
    /\ UNCHANGED <<value, alpha, args>>

CallValidateGeometry ==
    /\ call = "none" /\ Len(args) = 0
    /\ call' = "ValidateGeometry._validate_geometry"
    /\ result' = ValidateGeometry_validate_geometry(value)
    /\ UNCHANGED <<value, alpha, args>>

CallValidateData ==
    /\ call = "none" /\ Len(args) = 0
    /\ call' = "ValidateData"
    /\ result' = ValidateData(value)
    /\ UNCHANGED <<value, alpha, args>>

CallDataframeToExtendedDataElements ==
    /\ call = "none" /\ Len(args) = 1
    /\ call' = "dataframe_to_extended_data_elements"
    /\ result' = dataframe_to_extended_data_elements(value, args[1])
    /\ UNCHANGED <<value, alpha, args>>

NextValidate ==
    \/ CallValidateGeoSeries
    \/ CallValidateGeometry
    \/ CallValidateData
    \/ CallDataframeToExtendedDataElements

SpecValidate == InitValidate /\ [][NextValidate]_vars

(***************************************************************************)
(* An iterable that is no str and whose items are all geometries (the      *)
(* items of a dict are its keys, which the universe keeps strs).           *)
(***************************************************************************)
ComposedOfGeometries(x) ==
    /\ IsInstance(x, "Iterable")
    /\ ~IsInstance(x, "str")
    /\ IF x.t = "dict" THEN Len(x.v) = 0
       ELSE \A i \in DOMAIN PyItems(x) : IsInstance(PyItems(x)[i], "BaseGeometry")

(***************************************************************************)
(* C23: ValidateGeoSeries._validate_geometry accepts its input exactly     *)
(* when it is a GeoSeries or another iterable whose items are all          *)
(* geometries, and then returns it unchanged; it raises for a str, for a   *)
(* value that is not iterable and for an iterable with an item that is no  *)
(* geometry.                                                               *)
(***************************************************************************)
C23_GeoSeriesCoercion ==
    call = "ValidateGeoSeries._validate_geometry" =>
        /\ Returned(result) <=> ComposedOfGeometries(value)
        /\ Returned(result) => result.ret = value
        /\ ~Returned(result) => result.raised = "ValueError"

\* What the code keeps: the same with a tuple, list, ndarray or Series in
\* the place of the iterable.
GeoSeriesCoercionOfSequences ==
    call = "ValidateGeoSeries._validate_geometry" =>
        /\ Returned(result) <=> (IsSequence(value) /\ ComposedOfGeometries(value))
        /\ Returned(result) => result.ret = value
        /\ ~Returned(result) => result.raised = "ValueError"

(***************************************************************************)
(* C24: ValidateGeometry._validate_geometry raises for every value that    *)
(* is no geometry.  For a geometry it returns pygeoif.shape of the         *)
(* geometry itself when shapely.is_valid holds, and of the result of       *)
(* shapely.make_valid when it does not: pygeoif.shape never receives the   *)
(* invalid geometry, and a valid one reaches it unaltered.                 *)
(***************************************************************************)
C24_GeometryCoercion ==
    call = "ValidateGeometry._validate_geometry" =>
        /\ ~IsInstance(value, "BaseGeometry") => result.raised = "ValueError"
        /\ IsInstance(value, "BaseGeometry") =>
              /\ Returned(result)
              /\ result.ret = pygeoif_shape(result.converted)
              /\ shapely_is_valid(value) => result.converted = value
              /\ ~shapely_is_valid(value) =>
                    /\ result.converted = shapely_make_valid(value)
                    /\ result.converted # value
                    /\ shapely_is_valid(result.converted)

\* the polygon whose ring crosses itself is repaired, then converted
C24_Witness ==
    /\ call = "ValidateGeometry._validate_geometry"
    /\ value = Bowtie
    /\ Returned(result)
    /\ result.converted = Geometry(4)
    /\ result.ret = pygeoif_shape(Geometry(4))

(***************************************************************************)
(* The fields of a row, by key, as convert_fields leaves them.             *)
(***************************************************************************)
FieldsConverted ==
    /\ Returned(result)
    /\ \A i \in DOMAIN value.v :
          LET val == value.v[i][2]
              out == DictGet(result.parsed, value.v[i][1])
          IN  /\ val = PyNone => out = PyNone
              /\ val # PyNone => (out.t = "str" /\ out = StrOf(val).ret)

\* A row: a dict with the field name, which is not None, and a value.
IsRow(x) ==
    /\ x.t = "dict"
    /\ HasKey(x, "name") /\ HasKey(x, "value")
    /\ DictGet(x, "name") # PyNone

(***************************************************************************)
(* C25: ValidateData turns every field of its input that is not None into  *)
(* its str and keeps None, so that a row whose value is None gives a       *)
(* record with value None; a field whose str() raises makes it raise.      *)
(***************************************************************************)
C25_NullStaysNull ==
    (call = "ValidateData" /\ IsRow(value)) =>
        /\ (\E i \in DOMAIN value.v : value.v[i][2] = Unprintable) => ~Returned(result)
        /\ (\A i \in DOMAIN value.v : value.v[i][2] # Unprintable) => FieldsConverted

\* What the code keeps: convert_fields itself does as the sentence says, and
\* the record is built exactly when name and value are then strs; None is
\* kept only in display_name.
ConvertFieldsAlone ==
    (call = "ValidateData" /\ value.t = "dict") =>
        /\ (\E i \in DOMAIN value.v : value.v[i][2] = Unprintable) =>
              result.raised = "ValueError"
        /\ (\A i \in DOMAIN value.v : value.v[i][2] # Unprintable) =>
              /\ result.raised \in {"none", "ValidationError"}
              /\ \A i \in DOMAIN value.v :
                    DictGet(result.parsed, value.v[i][1]) =
                        ConvertField(value.v[i][2]).ret
              /\ Returned(result) <=>
                    /\ HasKey(value, "name") /\ HasKey(value, "value")
                    /\ DictGet(value, "name") # PyNone
                    /\ DictGet(value, "value") # PyNone
              /\ Returned(result) => FieldsConverted

(***************************************************************************)
(* C22: when display_names is given and holds another number of labels     *)
(* than the DataFrame has columns, dataframe_to_extended_data_elements     *)
(* raises ValueError before the loop: no attribute record and no           *)
(* ExtendedData element has been built.                                    *)
(***************************************************************************)
C22_LabelMismatchRaisesFirst ==
    (/\ call = "dataframe_to_extended_data_elements"
     /\ args[1] # PyNone /\ IsInstance(args[1], "Iterable")
     /\ PyLen(args[1]) # Len(value.v.columns)) =>
        /\ result.raised = "ValueError"
        /\ result.records = 0
        /\ result.elements = 0

\* three labels for two columns and two rows
C22_Witness ==
    /\ call = "dataframe_to_extended_data_elements"
    /\ Len(value.v.columns) = 2
    /\ Len(value.v.records) = 2
    /\ args[1].t = "list" /\ Len(args[1].v) = 3
    /\ result.raised = "ValueError"

(***************************************************************************)
(* utils.py: formatter.  A str is the sequence of its characters.          *)
(***************************************************************************)
IndentWidth == 4

\* IDT = " " * 4
IDT == [i \in 1..IndentWidth |-> " "]

DefaultMaxCols == 100

\* s.split(sep) for a separator of one character: the pieces between the
\* separators, one more than there are separators.
RECURSIVE Split(_, _)
Split(s, sep) ==
    IF \A i \in DOMAIN s : s[i] # sep THEN <<s>>
    ELSE LET i == Min({j \in DOMAIN s : s[j] = sep}) IN
         <<SubSeq(s, 1, i - 1)>> \o Split(SubSeq(s, i + 1, Len(s)), sep)

\* s.replace(old, new) for an old of one character.
RECURSIVE Replace(_, _, _)
Replace(s, old, new) ==
    IF Len(s) = 0 THEN <<>>
    ELSE (IF s[1] = old THEN new ELSE <<s[1]>>) \o Replace(Tail(s), old, new)

ExceedsOrReaches(max_cols, length) == max_cols <= length

\* max_cols < counter + len(word)
Exceeds(max_cols, length) == max_cols < length

\* One turn of the inner loop: new_sentence and counter after the word.
formatter_word(state, word, max_cols) ==
    IF Exceeds(max_cols, state.counter + Len(word))
    THEN [new_sentence |-> state.new_sentence \o <<"\n">> \o word \o <<" ">>,
          counter |-> Len(word) + 1]
    ELSE [new_sentence |-> state.new_sentence \o word \o <<" ">>,
          counter |-> state.counter + Len(word) + 1]

RECURSIVE formatter_words(_, _, _)
formatter_words(state, words, max_cols) ==
    IF Len(words) = 0 THEN state
    ELSE formatter_words(formatter_word(state, Head(words), max_cols), Tail(words), max_cols)

\* The outer loop: each line starts with a line break and counter = 0.
RECURSIVE formatter_lines(_, _, _)
formatter_lines(new_sentence, new_lines, max_cols) ==
    IF Len(new_lines) = 0 THEN new_sentence
    ELSE formatter_lines(
             formatter_words([new_sentence |-> new_sentence \o <<"\n">>, counter |-> 0],
                             Split(Head(new_lines), " "), max_cols).new_sentence,
             Tail(new_lines), max_cols)

formatter(sentence, max_cols) ==
    Replace(formatter_lines(<<>>, Split(sentence, "\n"), max_cols), "\n", <<"\n">> \o IDT)

(***************************************************************************)
(* The formatter calls and their arguments.                                *)
(***************************************************************************)
MaxChars == 5

MaxWidth == 3

Sentences == {PyStr(cs) : cs \in SeqsUpTo({"a", "b", " ", "\n"}, MaxChars)}

InitFormatter ==
    /\ call = "none"
    /\ alpha = PyNone
    /\ result = [raised |-> "none"]
    /\ value \in Sentences
    /\ args \in {<<>>} \cup {<<PyInt(m)>> : m \in 0..MaxWidth}

\* The width of the call: max_cols, or its default.
max_cols_of(a) == IF Len(a) = 0 THEN DefaultMaxCols ELSE a[1].v

CallFormatter ==
    /\ call = "none"
    /\ call' = "formatter"
    /\ result' = [raised |-> "none", ret |-> PyStr(formatter(value.v, max_cols_of(args)))]
    /\ UNCHANGED <<value, alpha, args>>

NextFormatter == CallFormatter

SpecFormatter == InitFormatter /\ [][NextFormatter]_vars

(***************************************************************************)
(* The lines and words of a formatted message.                             *)
(***************************************************************************)
RECURSIVE Flatten(_)
Flatten(seqs) == IF Len(seqs) = 0 THEN <<>> ELSE Head(seqs) \o Flatten(Tail(seqs))

\* The output ends no line with a line break but starts each with one: the
\* pieces after the first are its lines.
OutputLines(out) == Tail(Split(out, "\n"))

Indented(line) == Len(line) >= IndentWidth /\ SubSeq(line, 1, IndentWidth) = IDT

Unindented(line) == SubSeq(line, IndentWidth + 1, Len(line))

\* The words of an output line, each of which a blank follows; a line that
\* was left before its first word has none.
WordsOf(body) ==
    IF Len(body) = 0 THEN <<>> ELSE Split(SubSeq(body, 1, Len(body) - 1), " ")

\* The length of the line that holds the first i of the words, one blank
\* between two of them.
RECURSIVE WidthOf(_, _)
WidthOf(words, i) ==
    IF i = 0 THEN 0
    ELSE IF i = 1 THEN Len(words[1])
    ELSE WidthOf(words, i - 1) + 1 + Len(words[i])

InputWords(sentence) ==
    Flatten([i \in DOMAIN Split(sentence, "\n") |-> Split(Split(sentence, "\n")[i], " ")])

OutputWords(out) ==
    Flatten([i \in DOMAIN OutputLines(out) |-> WordsOf(Unindented(OutputLines(out)[i]))])

\* Greedy wrapping of one input line into the bodies of its output lines: a
\* word stays on its line only if the line with it is no longer than
\* max_cols, and a line is left only for a word that would make it longer.
GreedyWrapped(bodies, max_cols) ==
    /\ \A j \in DOMAIN bodies :
          \A i \in DOMAIN WordsOf(bodies[j]) :
              (i > 1 \/ j = 1) => WidthOf(WordsOf(bodies[j]), i) <= max_cols
    /\ \A j \in DOMAIN bodies :
          j > 1 => Len(bodies[j - 1]) + Len(WordsOf(bodies[j])[1]) > max_cols

(***************************************************************************)
(* C26: formatter wraps each line of the message greedily against          *)
(* max_cols (100 when it is not given) and indents every line of the       *)
(* output by IDT: a word starts a new line exactly when the line with the  *)
(* word added would be longer than max_cols; the words come out in their   *)
(* order, none dropped and none split; formatter does not raise.           *)
(***************************************************************************)
C26_GreedyWrap ==
    call = "formatter" =>
        LET out == result.ret.v
            max_cols == max_cols_of(args)
            lines == Split(value.v, "\n")
        IN  /\ Returned(result)
            /\ Len(args) = 0 => max_cols = 100
            /\ Split(out, "\n")[1] = <<>>
            /\ \A j \in DOMAIN OutputLines(out) : Indented(OutputLines(out)[j])
            /\ OutputWords(out) = InputWords(value.v)
            /\ out = Flatten([i \in DOMAIN lines |-> formatter(lines[i], max_cols)])
            /\ Len(lines) = 1 =>
                  GreedyWrapped([j \in DOMAIN OutputLines(out) |->
                                    Unindented(OutputLines(out)[j])], max_cols)

\* "ab a" with max_cols 2 comes out as the lines "ab" and "a"
C26_Witness ==
    /\ call = "formatter"
    /\ value = PyStr(<<"a", "b", " ", "a">>)
    /\ args = <<PyInt(2)>>
    /\ result.ret = PyStr(<<"\n">> \o IDT \o <<"a", "b", " ", "\n">> \o IDT \o <<"a", " ">>)

(***************************************************************************)
(* __init__.py: the descriptor Cached and _register_accessor.  The state   *)
(* is the class attribute "kml" of the table class (the accessor class     *)
(* the descriptor holds) and, for each table instance, the entry "kml" of  *)
(* its __dict__ (None while there is none), the number of times an         *)
(* accessor was constructed for it and the number of accesses to it.  An   *)
(* accessor object is known by its class, the instance it was constructed  *)
(* for and its ordinal among the accessors constructed for that instance.  *)
(***************************************************************************)
MaxInstances == 2

MaxAccesses == 3

Instances == 1..MaxInstances

AccessorClasses == {"Accsess", "Other"}

AccessorClass(accessor) == [t |-> "type", v |-> accessor]

\* self._accessor(obj)
AccessorObject(accessor, obj, nth) ==
    [t |-> accessor, v |-> [_data |-> obj, nth |-> nth]]

Cached_setattr_skipped(dict, obj, accessor_obj) == dict

\* object.__setattr__(obj, self._name, accessor_obj)
Cached_setattr(dict, obj, accessor_obj) == [dict EXCEPT ![obj] = accessor_obj]

\* Cached.__get__(obj, cls) for an instance: the accessor constructed, and
\* the state it leaves.
Cached_get(state, obj) ==
    LET accessor_obj == AccessorObject(state.accessor, obj, state.constructed[obj] + 1) IN
    [ret |-> accessor_obj,
     state |-> [state EXCEPT !.constructed[obj] = @ + 1,
                             !.dict = Cached_setattr(@, obj, accessor_obj)]]

\* obj.kml: Cached defines no __set__, so the entry of the instance's
\* __dict__ is found before the descriptor of the class.
GetAttr(state, obj) ==
    IF state.dict[obj] # PyNone
    THEN [ret |-> state.dict[obj], state |-> state]
    ELSE Cached_get(state, obj)

InitAccessor ==
    /\ call = "none"
    /\ alpha = PyNone
    /\ args = <<>>
    /\ result = [raised |-> "none"]
    /\ value = [accessor |-> "Accsess",
                dict |-> [i \in Instances |-> PyNone],
                constructed |-> [i \in Instances |-> 0],
                accesses |-> [i \in Instances |-> 0]]

\* obj.kml on a table instance
AccessInstance ==
    \E obj \in Instances :
        /\ value.accesses[obj] < MaxAccesses
        /\ call' = "obj.kml"
        /\ args' = <<obj>>
        /\ result' = [raised |-> "none", ret |-> GetAttr(value, obj).ret]
        /\ value' = [GetAttr(value, obj).state EXCEPT !.accesses[obj] = @ + 1]
        /\ UNCHANGED alpha

\* DataFrame.kml: Cached.__get__(None, cls)
AccessClass ==
    /\ call' = "cls.kml"
    /\ args' = <<>>
    /\ result' = [raised |-> "none", ret |-> AccessorClass(value.accessor)]
    /\ UNCHANGED <<value, alpha>>

\* _register_accessor("kml", cls)(accessor): setattr(cls, name, Cached(...))
RegisterAccessor ==
    \E accessor \in AccessorClasses :
        /\ call' = "register"
        /\ args' = <<accessor>>
        /\ result' = [raised |-> "none", ret |-> AccessorClass(accessor)]
        /\ value' = [value EXCEPT !.accessor = accessor]
        /\ UNCHANGED alpha

NextAccessor ==
    \/ AccessInstance
    \/ AccessClass
    \/ RegisterAccessor

SpecAccessor == InitAccessor /\ [][NextAccessor]_vars

(***************************************************************************)
(* C27: on one table instance, whatever the accesses, the accessor is      *)
(* constructed at most once (once as soon as the instance was accessed),   *)
(* the object kept for the instance is that first one and never another,   *)
(* and every access to the instance returns it; an access through the      *)
(* class returns the accessor class and constructs nothing.                *)
(***************************************************************************)
C27_AccessorCachedOnce ==
    /\ \A obj \in Instances :
          /\ value.constructed[obj] = IF value.accesses[obj] > 0 THEN 1 ELSE 0
          /\ value.accesses[obj] = 0 => value.dict[obj] = PyNone
          /\ value.accesses[obj] > 0 =>
                /\ value.dict[obj] # PyNone
                /\ value.dict[obj].v = [_data |-> obj, nth |-> 1]
    /\ call = "obj.kml" => result.ret = value.dict[args[1]]
    /\ call = "cls.kml" => result.ret = AccessorClass(value.accessor)

\* the third access to an instance, after another accessor was registered
C27_Witness ==
    /\ call = "obj.kml"
    /\ value.accesses[args[1]] = 3
    /\ value.constructed[args[1]] = 1
    /\ value.accessor # result.ret.t
    /\ result.ret = value.dict[args[1]]

====
